---- MODULE Spec2Model ----
(***************************************************************************)
(* Model of src/bot.py: a python-telegram-bot application.  main() checks  *)
(* TOKEN, registers eight command handlers, four message handlers, one     *)
(* callback-query handler and one error handler, then runs the polling     *)
(* loop.  The loop processes one update at a time: the first registered    *)
(* handler whose check_update accepts the update is awaited; an exception  *)
(* raised by it is passed to error_handler; an exception raised by         *)
(* error_handler is logged by the library and dropped.                     *)
(*                                                                         *)
(* Reply texts, dice results and the chosen joke are not modelled: an      *)
(* outward call is recorded by its method, its caller, a tag naming the    *)
(* branch that made it, and whether it returned (ok) or raised.             *)
(***************************************************************************)
EXTENDS Integers, Sequences, FiniteSets, TLC

VARIABLES TOKEN, proc, cur, pc, handler, out, error, errLog, libLog, prev

vars == <<TOKEN, proc, cur, pc, handler, out, error, errLog, libLog, prev>>

(* ------------------------------ bounds --------------------------------- *)

\* arrival times of updates range over 0..MaxTime (seconds)
MaxTime == 2

\* the rate-limit window the specification speaks of; bot.py has none
windowSeconds == 2

(* ------------------------------ values --------------------------------- *)

None == "None"

\* user ids of the people writing to the bot
Users == { 7, 42 }

\* os.getenv: None when the variable is unset, else its value
Env(isSet, value) == [ isSet |-> isSet, value |-> value ]

\* values of the TELEGRAM_BOT_TOKEN environment variable: unset, empty,
\* without the ':' separator, and of the two-part shape
Tokens == { Env(FALSE, <<>>), Env(TRUE, <<>>), Env(TRUE, <<"1", "2", "3">>),
            Env(TRUE, <<"1", ":", "a">>) }

\* python truthiness where every set value is truthy, the empty one too
Truthy_when_set(tok) == tok.isSet

\* python truthiness of TOKEN: None and the empty string are falsy
Truthy(tok) == tok.isSet /\ tok.value # <<>>

HasSeparator(tok) ==
    tok.isSet /\ \E i \in DOMAIN tok.value : tok.value[i] = ":"

\* commands a user may type: the eight registered ones and one that is not
CommandNames == { "start", "help", "echo", "caps", "time", "roll", "flip",
                  "joke", "foo" }

\* context.args: the words after the command.  Only echo and caps read
\* them, so only their commands (and the unregistered one) are given some
ArgLists(c) ==
    IF c \in { "echo", "caps", "foo" } THEN { <<>>, <<"a">> } ELSE { <<>> }

\* plain texts a user may send, as character sequences
Texts == { <<"H", "i">>, <<"t", "h", "a", "n", "k", "s">>, <<"o", "k">> }

\* the update slot that is set: update.message, update.edited_message,
\* update.channel_post or update.callback_query
MessageSlots == { "message", "edited_message", "channel_post" }

\* what a message carries; a Telegram message carries exactly one of these
\* (a command is a text message whose first entity is a bot_command at 0)
Forms == { "command", "text", "photo", "sticker", "location", "document",
           "video" }

CallbackData == { "dice", "stats", "other" }

Upd(slot, form, cmd, args, text, data, hasMsg, user, date) ==
    [ slot |-> slot, form |-> form, cmd |-> cmd, args |-> args,
      text |-> text, data |-> data, hasMsg |-> hasMsg, user |-> user,
      date |-> date ]

NoUpdate == Upd("none", None, None, <<>>, <<>>, None, FALSE, 0, 0)

\* the updates the transport can deliver at time d
Updates(d) ==
    UNION { { Upd(s, "command", c, a, <<>>, None, TRUE, u, d) :
                s \in MessageSlots, a \in ArgLists(c), u \in Users } :
            c \in CommandNames }
    \cup
    { Upd(s, "text", None, <<>>, t, None, TRUE, u, d) :
        s \in MessageSlots, t \in Texts, u \in Users }
    \cup
    { Upd(s, f, None, <<>>, <<>>, None, TRUE, u, d) :
        s \in MessageSlots,
        f \in { "photo", "sticker", "location", "document", "video" },
        u \in Users }
    \cup
    { Upd("callback_query", None, None, <<>>, <<>>, k, m, u, d) :
        k \in CallbackData, m \in BOOLEAN, u \in Users }

\* update.message: set only for a new message
HasMessage(u) == u.slot = "message"

\* update.effective_message: the message of whichever slot is set; a
\* callback query has one unless the button sat on an inline message
HasEffectiveMessage(u) ==
    \/ u.slot \in MessageSlots
    \/ u.slot = "callback_query" /\ u.hasMsg

(* --------------------------- text helpers ------------------------------ *)

LowerChar(c) == IF c = "H" THEN "h" ELSE c

Lower(s) == [ i \in DOMAIN s |-> LowerChar(s[i]) ]

\* python's `word in text`
Contains(word, text) ==
    \E i \in 1 .. (Len(text) - Len(word) + 1) :
        SubSeq(text, i, i + Len(word) - 1) = word

Greetings == { <<"h", "e", "l", "l", "o">>, <<"h", "i">>, <<"h", "e", "y">> }

Thank == <<"t", "h", "a", "n", "k">>

(* ------------------------- handler registry ---------------------------- *)

\* filters.TEXT, filters.COMMAND, filters.PHOTO, filters.Sticker.ALL,
\* filters.LOCATION applied to the effective message
filter_TEXT(u) == u.form \in { "text", "command" }

filter_COMMAND(u) == u.form = "command"

filter_PHOTO_any(u) == u.form \in { "photo", "document", "video" }

filter_PHOTO(u) == u.form = "photo"

filter_STICKER(u) == u.form = "sticker"

filter_LOCATION(u) == u.form = "location"

ApplyFilter(f, u) ==
    CASE f = "TEXT & ~COMMAND" -> filter_TEXT(u) /\ ~filter_COMMAND(u)
      [] f = "TEXT"            -> filter_TEXT(u)
      [] f = "PHOTO"           -> filter_PHOTO(u)
      [] f = "Sticker.ALL"     -> filter_STICKER(u)
      [] f = "LOCATION"        -> filter_LOCATION(u)
      [] OTHER                 -> FALSE

CmdH(c, f) == [ type |-> "CommandHandler", key |-> c, callback |-> f ]

MsgH(flt, f) == [ type |-> "MessageHandler", key |-> flt, callback |-> f ]

CbqH(f) == [ type |-> "CallbackQueryHandler", key |-> None, callback |-> f ]

\* the registry with the text handler registered on filters.TEXT alone
handlers_text_unguarded ==
    << CmdH("start", "start"), CmdH("help", "help_command"),
       CmdH("echo", "echo"), CmdH("caps", "caps"),
       CmdH("time", "time_command"), CmdH("roll", "roll_dice"),
       CmdH("flip", "flip_coin"), CmdH("joke", "joke"),
       MsgH("TEXT", "handle_text"),
       MsgH("PHOTO", "handle_photo"),
       MsgH("Sticker.ALL", "handle_sticker"),
       MsgH("LOCATION", "handle_location"),
       CbqH("button_callback") >>

\* the handlers of group 0 in registration order
handlers ==
    << CmdH("start", "start"), CmdH("help", "help_command"),
       CmdH("echo", "echo"), CmdH("caps", "caps"),
       CmdH("time", "time_command"), CmdH("roll", "roll_dice"),
       CmdH("flip", "flip_coin"), CmdH("joke", "joke"),
       MsgH("TEXT & ~COMMAND", "handle_text"),
       MsgH("PHOTO", "handle_photo"),
       MsgH("Sticker.ALL", "handle_sticker"),
       MsgH("LOCATION", "handle_location"),
       CbqH("button_callback") >>

\* Handler.check_update.  A CommandHandler accepts a new or edited message
\* (its default filter is UpdateType.MESSAGES) that starts with its command;
\* a MessageHandler accepts a message, edited message or channel post that
\* passes its filter; the CallbackQueryHandler, registered without a
\* pattern, accepts every callback query.
check_update(h, u) ==
    CASE h.type = "CommandHandler" ->
            /\ u.slot \in { "message", "edited_message" }
            /\ filter_COMMAND(u)
            /\ u.cmd = h.key
      [] h.type = "MessageHandler" ->
            /\ u.slot \in MessageSlots
            /\ ApplyFilter(h.key, u)
      [] h.type = "CallbackQueryHandler" ->
            u.slot = "callback_query"
      [] OTHER -> FALSE

Matching(u) == { i \in DOMAIN handlers : check_update(handlers[i], u) }

\* the callback of the first registered handler that accepts u, or None
Lookup(u) ==
    IF Matching(u) = {} THEN None
    ELSE handlers[CHOOSE i \in Matching(u) :
                      \A j \in Matching(u) : i <= j].callback

(* --------------------------- outward calls ----------------------------- *)

Call(op, by, tag, ok) == [ op |-> op, by |-> by, tag |-> tag, ok |-> ok ]

NoPrev == [ joke |-> FALSE, user |-> 0, date |-> 0, raised |-> FALSE ]

\* number of entries of s satisfying P
CountIf(s, P(_)) == Cardinality({ i \in DOMAIN s : P(s[i]) })

IsReply(c) == c.op \in { "reply_text", "reply_sticker", "edit_message_text" }

IsDeliveredReply(c) == IsReply(c) /\ c.ok

IsHandlerReply(c) == IsReply(c) /\ c.by = "handler"

IsErrorReply(c) == c.by = "error_handler"

IsAnswer(c) == c.op = "answer"

IsEdit(c) == c.op = "edit_message_text"

Terminal == pc \in { "done", "dropped" }

InFlight == pc \in { "received", "classified", "acked", "failed" }

(* ------------------------------ startup -------------------------------- *)

Init ==
    /\ TOKEN \in Tokens
    /\ proc = "boot"
    /\ cur = NoUpdate
    /\ pc = "idle"
    /\ handler = None
    /\ out = <<>>
    /\ error = None
    /\ errLog = 0
    /\ libLog = 0
    /\ prev = NoPrev

\* main(), lines 213-220 and 246.  A falsy TOKEN: two prints and a plain
\* return, so the interpreter exits with status 0.  Otherwise the
\* application is built and run_polling() first calls the transport
\* (get_me): a token the platform does not know raises InvalidToken out of
\* run_polling and main, so the interpreter exits with status 1.  The
\* platform knows no token without the ':' separator; one of the two-part
\* shape it may or may not know.
main ==
    /\ proc = "boot"
    /\ IF ~Truthy(TOKEN)
         THEN proc' = "returned"
         ELSE IF HasSeparator(TOKEN)
                THEN proc' \in { "polling", "crashed" }
                ELSE proc' = "crashed"
    /\ UNCHANGED <<TOKEN, cur, pc, handler, out, error, errLog, libLog, prev>>

ExitStatus ==
    CASE proc = "returned" -> 0
      [] proc = "crashed"  -> 1
      [] OTHER             -> -1

(* --------------------------- dispatch loop ----------------------------- *)

\* what is remembered of the update served before the current one
Summary ==
    [ joke |-> handler = "joke", user |-> cur.user, date |-> cur.date,
      raised |-> error # None ]

\* run_polling hands the next update to process_update once the previous
\* one has been processed (updates are not processed concurrently)
receive ==
    /\ proc = "polling"
    /\ pc \in { "idle", "done", "dropped" }
    /\ \E d \in cur.date .. MaxTime :
         \E u \in Updates(d) : cur' = u
    /\ prev' = IF pc = "idle" THEN prev ELSE Summary
    /\ pc' = "received"
    /\ handler' = None
    /\ out' = <<>>
    /\ error' = None
    /\ errLog' = 0
    /\ libLog' = 0
    /\ UNCHANGED <<TOKEN, proc>>

\* a classify step that leaves an update nobody handles where it is
classify_stuck ==
    /\ pc = "received"
    /\ handler' = Lookup(cur)
    /\ pc' = IF Lookup(cur) = None THEN "received" ELSE "classified"
    /\ UNCHANGED <<TOKEN, proc, cur, out, error, errLog, libLog, prev>>

\* process_update: the first handler of the group that accepts the update
\* is chosen; when none does the update is dropped without a trace
classify ==
    /\ pc = "received"
    /\ handler' = Lookup(cur)
    /\ pc' = IF Lookup(cur) = None THEN "dropped" ELSE "classified"
    /\ UNCHANGED <<TOKEN, proc, cur, out, error, errLog, libLog, prev>>

(* ------------------------------ handlers ------------------------------- *)

\* `await update.message.<op>(...)` as the handler's last statement: with
\* update.message None the attribute access raises before anything is
\* sent; otherwise one call goes out, and a transport failure raises
Reply(op, tag) ==
    IF ~HasMessage(cur)
      THEN /\ error' = "AttributeError"
           /\ pc' = "failed"
           /\ out' = out
      ELSE \E ok \in BOOLEAN :
             /\ out' = Append(out, Call(op, "handler", tag, ok))
             /\ error' = IF ok THEN None ELSE "TelegramError"
             /\ pc' = IF ok THEN "done" ELSE "failed"

Running(h) == pc = "classified" /\ handler = h

Frame == UNCHANGED <<TOKEN, proc, cur, handler, errLog, libLog, prev>>

start ==
    /\ Running("start")
    /\ Reply("reply_text", "welcome")
    /\ Frame

help_command ==
    /\ Running("help_command")
    /\ Reply("reply_text", "help")
    /\ Frame

\* echo that says nothing when called without arguments
echo_silent ==
    /\ Running("echo")
    /\ IF cur.args # <<>>
         THEN Reply("reply_text", "echo")
         ELSE /\ pc' = "done"
              /\ UNCHANGED <<out, error>>
    /\ Frame

echo ==
    /\ Running("echo")
    /\ IF cur.args # <<>>
         THEN Reply("reply_text", "echo")
         ELSE Reply("reply_text", "echo-usage")
    /\ Frame

caps ==
    /\ Running("caps")
    /\ IF cur.args # <<>>
         THEN Reply("reply_text", "caps")
         ELSE Reply("reply_text", "caps-usage")
    /\ Frame

time_command ==
    /\ Running("time_command")
    /\ Reply("reply_text", "time")
    /\ Frame

roll_dice ==
    /\ Running("roll_dice")
    /\ Reply("reply_text", "roll")
    /\ Frame

flip_coin ==
    /\ Running("flip_coin")
    /\ Reply("reply_text", "flip")
    /\ Frame

\* joke behind a per-user rate limit: a joke by the same user less than
\* windowSeconds after that user's previous joke is dropped
joke_rate_limited ==
    /\ Running("joke")
    /\ IF /\ prev.joke
          /\ prev.user = cur.user
          /\ cur.date - prev.date < windowSeconds
         THEN /\ pc' = "dropped"
              /\ UNCHANGED <<out, error>>
         ELSE Reply("reply_text", "joke")
    /\ Frame

joke ==
    /\ Running("joke")
    /\ Reply("reply_text", "joke")
    /\ Frame

\* update.message.text is read first: the same AttributeError as in Reply
\* when update.message is None
handle_text ==
    /\ Running("handle_text")
    /\ IF \E w \in Greetings : Contains(w, Lower(cur.text))
         THEN Reply("reply_text", "greeting")
         ELSE IF Contains(Thank, Lower(cur.text))
                THEN Reply("reply_text", "welcome-back")
                ELSE Reply("reply_text", "you-sent")
    /\ Frame

handle_photo ==
    /\ Running("handle_photo")
    /\ Reply("reply_text", "photo")
    /\ Frame

handle_sticker ==
    /\ Running("handle_sticker")
    /\ Reply("reply_sticker", "sticker")
    /\ Frame

handle_location ==
    /\ Running("handle_location")
    /\ Reply("reply_text", "location")
    /\ Frame

\* button_callback that goes on to the edit when query.answer() failed
button_callback_answer_ignored ==
    /\ Running("button_callback")
    /\ \E ok \in BOOLEAN :
         /\ out' = Append(out, Call("answer", "handler", "ack", ok))
         /\ error' = None
         /\ pc' = "acked"
    /\ Frame

\* button_callback up to its first await: query.answer()
button_callback_answer ==
    /\ Running("button_callback")
    /\ \E ok \in BOOLEAN :
         /\ out' = Append(out, Call("answer", "handler", "ack", ok))
         /\ error' = IF ok THEN None ELSE "TelegramError"
         /\ pc' = IF ok THEN "acked" ELSE "failed"
    /\ Frame

\* button_callback that answers every token with an edit
button_callback_edit_always ==
    /\ pc = "acked"
    /\ \E ok \in BOOLEAN :
         /\ out' = Append(out, Call("edit_message_text", "handler",
                                    cur.data, ok))
         /\ error' = IF ok THEN None ELSE "TelegramError"
         /\ pc' = IF ok THEN "done" ELSE "failed"
    /\ Frame

\* button_callback after query.answer() returned: the 'dice' and 'stats'
\* branches edit the message, any other token falls through
button_callback_edit ==
    /\ pc = "acked"
    /\ IF cur.data \in { "dice", "stats" }
         THEN \E ok \in BOOLEAN :
                /\ out' = Append(out, Call("edit_message_text", "handler",
                                           cur.data, ok))
                /\ error' = IF ok THEN None ELSE "TelegramError"
                /\ pc' = IF ok THEN "done" ELSE "failed"
         ELSE /\ pc' = "done"
              /\ UNCHANGED <<out, error>>
    /\ Frame

(* ---------------------------- error handler ---------------------------- *)

\* error_handler that writes no log entry
error_handler_unlogged ==
    /\ pc = "failed"
    /\ errLog' = errLog
    /\ IF HasEffectiveMessage(cur)
         THEN \E ok \in BOOLEAN :
                /\ out' = Append(out, Call("reply_text", "error_handler",
                                           "error", ok))
                /\ libLog' = IF ok THEN libLog ELSE libLog + 1
         ELSE UNCHANGED <<out, libLog>>
    /\ pc' = "done"
    /\ UNCHANGED <<TOKEN, proc, cur, handler, error, prev>>

\* error_handler whose own failure ends the polling loop
error_handler_propagating ==
    /\ pc = "failed"
    /\ errLog' = errLog + 1
    /\ IF HasEffectiveMessage(cur)
         THEN \E ok \in BOOLEAN :
                /\ out' = Append(out, Call("reply_text", "error_handler",
                                           "error", ok))
                /\ libLog' = libLog
                /\ proc' = IF ok THEN proc ELSE "crashed"
         ELSE UNCHANGED <<out, libLog, proc>>
    /\ pc' = "done"
    /\ UNCHANGED <<TOKEN, cur, handler, error, prev>>

\* process_error -> error_handler: one logger.error entry, then one
\* generic reply when the update has an effective message.  An exception
\* out of that reply is caught by process_error, which logs it and goes
\* on; process_update then returns to the polling loop.
error_handler ==
    /\ pc = "failed"
    /\ errLog' = errLog + 1
    /\ IF HasEffectiveMessage(cur)
         THEN \E ok \in BOOLEAN :
                /\ out' = Append(out, Call("reply_text", "error_handler",
                                           "error", ok))
                /\ libLog' = IF ok THEN libLog ELSE libLog + 1
         ELSE UNCHANGED <<out, libLog>>
    /\ pc' = "done"
    /\ UNCHANGED <<TOKEN, proc, cur, handler, error, prev>>

(* --------------------------- specification ----------------------------- *)

Step ==
    \/ classify
    \/ start
    \/ help_command
    \/ echo
    \/ caps
    \/ time_command
    \/ roll_dice
    \/ flip_coin
    \/ joke
    \/ handle_text
    \/ handle_photo
    \/ handle_sticker
    \/ handle_location
    \/ button_callback_answer
    \/ button_callback_edit
    \/ error_handler

Next ==
    \/ main
    \/ receive
    \/ classify
    \/ start
    \/ help_command
    \/ echo
    \/ caps
    \/ time_command
    \/ roll_dice
    \/ flip_coin
    \/ joke
    \/ handle_text
    \/ handle_photo
    \/ handle_sticker
    \/ handle_location
    \/ button_callback_answer
    \/ button_callback_edit
    \/ error_handler

Spec == Init /\ [][Next]_vars

\* once process_update is entered the event loop runs it to its end: every
\* await returns (with a result or an exception)
FairSpec == Spec /\ WF_vars(Step)

TypeOK ==
    /\ TOKEN \in Tokens
    /\ proc \in { "boot", "returned", "crashed", "polling" }
    /\ pc \in { "idle", "received", "classified", "acked", "failed",
                "done", "dropped" }
    /\ errLog \in 0 .. 1
    /\ libLog \in 0 .. 1
    /\ Len(out) <= 3

(* ------------------------------ claims --------------------------------- *)

Last(s) == s[Len(s)]

RegisteredCommands ==
    { handlers[i].key :
        i \in { j \in DOMAIN handlers : handlers[j].type = "CommandHandler" } }

\* the callback main() registers for command c
CallbackOf(c) ==
    handlers[CHOOSE i \in DOMAIN handlers :
                 handlers[i].type = "CommandHandler" /\ handlers[i].key = c
            ].callback

IsJokeCommand(u) == u.form = "command" /\ u.cmd = "joke"

\* the previous update was a joke of the same user, served without error,
\* and the current one arrives less than the window later
WithinWindowOfJoke ==
    /\ prev.joke
    /\ ~prev.raised
    /\ prev.user = cur.user
    /\ cur.date - prev.date < windowSeconds

C2_FailureIsolated ==
    /\ (error # None /\ pc = "done")
         => /\ errLog = 1
            /\ CountIf(out, IsDeliveredReply) <= 1
            /\ \A i \in DOMAIN out :
                 IsDeliveredReply(out[i]) => IsErrorReply(out[i])
            /\ CountIf(out, IsHandlerReply) <= 1
            /\ proc = "polling"
            /\ ENABLED receive
    /\ (error = None) => (errLog = 0)
    /\ prev.raised => proc = "polling"

\* an update served normally right after one whose handler failed
C2_Witness ==
    /\ prev.raised
    /\ pc = "done"
    /\ error = None
    /\ CountIf(out, IsDeliveredReply) = 1

\* a document, a video, or a command whose name main() did not register
UnregisteredKind(u) ==
    \/ u.form \in { "document", "video" }
    \/ u.form = "command" /\ u.cmd \notin RegisteredCommands

\* C3: an update of a kind without a registered handler invokes no
\* handler, sends nothing and writes no error log entry.
C3_UnregisteredDropped ==
    (UnregisteredKind(cur) /\ pc # "received")
    => /\ pc = "dropped"
       /\ handler = None
       /\ out = <<>>
       /\ error = None
       /\ errLog = 0
       /\ libLog = 0

C3_Witness ==
    /\ cur.form = "document"
    /\ pc = "dropped"
    /\ out = <<>>

IsRecognizedCommand(u) == u.form = "command" /\ u.cmd \in RegisteredCommands

\* C4 as stated: a recognized command is always dispatched to its command
\* handler, never to the plain-text handler, which runs only for messages
\* that are not commands and carry no media.
C4_CommandAlwaysDispatched ==
    /\ (IsRecognizedCommand(cur) /\ pc # "received")
         => handler = CallbackOf(cur.cmd)
    /\ (handler = "handle_text") => (cur.form = "text")

\* C4 amended: a recognized command that arrives as a new or edited
\* message is dispatched to its command handler; one that arrives as a
\* channel post is dropped; no command ever reaches the plain-text
\* handler, which runs only for text that is not a command.
C4_CommandPrecedence ==
    /\ (IsRecognizedCommand(cur) /\ pc # "received")
         => IF cur.slot = "channel_post"
              THEN handler = None /\ pc = "dropped"
              ELSE handler = CallbackOf(cur.cmd)
    /\ (handler = "handle_text") => (cur.form = "text")

C4_Witness ==
    /\ IsRecognizedCommand(cur)
    /\ cur.cmd = "start"
    /\ handler = "start"
    /\ pc = "done"

\* the credential is unset or empty
Absent(tok) == ~tok.isSet \/ Len(tok.value) = 0

\* the credential lacks the ':' of the two-part shape (absent included)
NoSeparator(tok) == \A i \in DOMAIN tok.value : tok.value[i] # ":"

\* C5 as stated: with an absent or malformed credential the process exits
\* non-zero and no update is ever dispatched.
C5_ExitsNonZero ==
    (NoSeparator(TOKEN) /\ proc # "boot")
    => (ExitStatus = 1 /\ cur = NoUpdate)

\* C5 amended: with an absent or malformed credential the receive loop is
\* never started and no update is dispatched; the exit status is non-zero
\* for a malformed credential, but 0 for an absent one (main returns).
C5_StartupFails ==
    NoSeparator(TOKEN)
    => /\ proc # "polling"
       /\ cur = NoUpdate
       /\ pc = "idle"
       /\ (proc # "boot") =>
            ExitStatus = (IF Absent(TOKEN) THEN 0 ELSE 1)

C5_Witness ==
    /\ Absent(TOKEN)
    /\ proc = "returned"
    /\ ExitStatus = 0

ErrorReplyFailed ==
    /\ out # <<>>
    /\ IsErrorReply(Last(out))
    /\ ~Last(out).ok

\* C6: after a handler failure at most one generic error reply is
\* attempted; when it fails the failure is logged and swallowed: nothing is
\* retried and the polling loop goes on.
C6_ErrorReplySwallowed ==
    /\ CountIf(out, IsErrorReply) <= 1
    /\ (error = None) => (CountIf(out, IsErrorReply) = 0)
    /\ (\E i \in DOMAIN out : IsErrorReply(out[i]))
         => (IsErrorReply(Last(out)) /\ pc = "done")
    /\ ErrorReplyFailed
         => /\ libLog = 1
            /\ errLog = 1
            /\ proc = "polling"
            /\ ENABLED receive

C6_Witness ==
    /\ ErrorReplyFailed
    /\ pc = "done"
    /\ libLog = 1

UnknownToken(u) ==
    u.slot = "callback_query" /\ u.data \notin { "dice", "stats" }

\* C7 as stated: a button press with an unknown token is acknowledged and
\* no reply or message edit is sent.
C7_UnknownTokenSilent ==
    (UnknownToken(cur) /\ pc = "done")
    => /\ \E i \in DOMAIN out : IsAnswer(out[i]) /\ out[i].ok
       /\ CountIf(out, IsReply) = 0

\* C7 amended: for a button press with an unknown token the
\* acknowledgement is attempted first and no message edit is sent; when
\* the acknowledgement succeeds nothing else is sent; when it fails,
\* error_handler logs it and attempts one generic reply if the press has a
\* message.
C7_UnknownTokenAcked ==
    (UnknownToken(cur) /\ pc = "done")
    => /\ out # <<>>
       /\ IsAnswer(out[1])
       /\ CountIf(out, IsAnswer) = 1
       /\ CountIf(out, IsEdit) = 0
       /\ IF out[1].ok
            THEN Len(out) = 1 /\ errLog = 0
            ELSE /\ errLog = 1
                 /\ Len(out) = (IF cur.hasMsg THEN 2 ELSE 1)
                 /\ \A i \in 2 .. Len(out) : IsErrorReply(out[i])

C7_Witness ==
    /\ UnknownToken(cur)
    /\ pc = "done"
    /\ out = << Call("answer", "handler", "ack", TRUE) >>

\* C8: every update whose processing has begun eventually reaches done or
\* dropped, a failing handler included.
C8_RunsToCompletion == InFlight ~> Terminal

\* a failing handler's update ended in done
C8_Witness ==
    /\ pc = "done"
    /\ error # None
    /\ errLog = 1

\* C9 as stated: every handler invocation that completes without error
\* makes exactly one attempt to send a reply, the button-press handler on
\* any branch included.
C9_ExactlyOneReply ==
    (pc = "done" /\ error = None) => (CountIf(out, IsReply) = 1)

\* C9 amended: a command, text, photo, sticker or location handler that
\* completes without error makes exactly one attempt to send a reply; the
\* button-press handler makes one acknowledgement, followed by exactly one
\* message edit for 'dice' and 'stats' and by nothing for any other token.
C9_OneReplyExceptUnknownToken ==
    (pc = "done" /\ error = None)
    => IF handler = "button_callback"
         THEN /\ IsAnswer(out[1])
              /\ CountIf(out, IsAnswer) = 1
              /\ CountIf(out, IsReply) = (IF UnknownToken(cur) THEN 0 ELSE 1)
         ELSE /\ Len(out) = 1
              /\ IsHandlerReply(out[1])

C9_Witness ==
    /\ handler = "echo"
    /\ cur.args = <<>>
    /\ pc = "done"
    /\ error = None
    /\ out = << Call("reply_text", "handler", "echo-usage", TRUE) >>

\* C10: for every button press the acknowledgement is issued before any
\* message edit: an edit is only ever attempted after a successful
\* acknowledgement, so a failed acknowledgement is followed by no edit and
\* a failed edit follows a sent acknowledgement.
C10_AnswerBeforeEdit ==
    /\ \A i \in DOMAIN out :
         IsEdit(out[i]) => (i > 1 /\ IsAnswer(out[1]) /\ out[1].ok)
    /\ (handler = "button_callback" /\ out # <<>>) => IsAnswer(out[1])
    /\ (pc = "acked") => (out # <<>> /\ IsAnswer(Last(out)) /\ Last(out).ok)

\* the edit failed after the acknowledgement had been sent
C10_Witness ==
    /\ Len(out) >= 2
    /\ IsAnswer(out[1])
    /\ out[1].ok
    /\ IsEdit(out[2])
    /\ ~out[2].ok

====
